---- MODULE Spec2Model ----
(***************************************************************************)
(* Model of the four design-principle demonstrations:                      *)
(*   srp.py  ShoppingList and PersistenceManager                           *)
(*   ocp.py  Specification / AndSpecification / BetterFilter               *)
(*   isp.py  MultiFunctionMachine and its delegates                        *)
(*   dip.py  Relationships and find_all_children_of                        *)
(* The demonstrations share nothing, so each has its own specification     *)
(* (SpecSRP, SpecOCP, SpecISP, SpecDIP) over its own variables; the        *)
(* variables of the other three stay at their initial values.              *)
(***************************************************************************)
EXTENDS Integers, Sequences, FiniteSets, TLC

VARIABLES
    \* srp.py
    entries,      \* ShoppingList.entries: list of strings (sequences of characters)
    count,        \* ShoppingList.count
    lastOp,       \* the last call made on the list, its argument, outcome and pre-state
    hist,         \* history: every entry ever added, as rendered when added, with a removed flag
    adds,         \* number of add_entry calls that returned
    removes,      \* number of remove_entry calls that returned
    handle,       \* the file handle of the last save_to_file call: "none", "open", "closed"
    saveResult,   \* how the last save_to_file call ended
    fileContent,  \* content of the destination file
    saves,        \* number of save_to_file calls made
    \* ocp.py
    spec,         \* the specification object under construction / in use
    operands,     \* the operands of the last `&` (or <<>> when spec was not built by `&`)
    items,        \* the items handed to BetterFilter.filter
    idx,          \* position of the generator's for loop (number of items consumed)
    out,          \* the items the generator has yielded so far
    pc,           \* "build", "iter" (generator created), "done" (StopIteration)
    \* isp.py
    printer,      \* MultiFunctionMachine.printer (a device)
    scanner,      \* MultiFunctionMachine.scanner (a device)
    log,          \* per device: the operations invoked on it, in order
    lastCall,     \* the last call made on the machine, with the log before it
    \* dip.py
    relations,    \* the class attribute Relationships.relations
    instances,    \* the Relationships instances created so far
    calls         \* every add_parent_and_child call made so far, in order

srpVars == <<entries, count, lastOp, hist, adds, removes, handle, saveResult, fileContent, saves>>
ocpVars == <<spec, operands, items, idx, out, pc>>
ispVars == <<printer, scanner, log, lastCall>>
dipVars == <<relations, instances, calls>>
vars == <<srpVars, ocpVars, ispVars, dipVars>>

----------------------------------------------------------------------------
(* Bounds *)

MaxAdds == 3        \* add_entry calls in one run
MaxSaves == 1       \* save_to_file calls in one run

----------------------------------------------------------------------------
(* Strings are sequences of one-character strings. *)

Texts == { <<"a">>, <<"b", "c">> }

DigitChar(d) == CASE d = 0 -> "0" [] d = 1 -> "1" [] d = 2 -> "2" [] d = 3 -> "3"
                  [] d = 4 -> "4" [] d = 5 -> "5" [] d = 6 -> "6" [] d = 7 -> "7"
                  [] d = 8 -> "8" [] d = 9 -> "9"

DigitVal(c) == CASE c = "0" -> 0 [] c = "1" -> 1 [] c = "2" -> 2 [] c = "3" -> 3
                 [] c = "4" -> 4 [] c = "5" -> 5 [] c = "6" -> 6 [] c = "7" -> 7
                 [] c = "8" -> 8 [] c = "9" -> 9

IsDigit(c) == c \in {"0", "1", "2", "3", "4", "5", "6", "7", "8", "9"}

\* str(n) of a non-negative int, as the f-string renders {self.count}
RECURSIVE StrNat(_)
StrNat(n) == IF n < 10 THEN <<DigitChar(n)>>
             ELSE StrNat(n \div 10) \o <<DigitChar(n % 10)>>

\* f"{self.count}: {text}"
FormatEntry(n, text) == StrNat(n) \o <<":", " ">> \o text

\* "\n".join(self.entries)
RECURSIVE Join(_)
Join(ss) == IF Len(ss) = 0 THEN <<>>
            ELSE IF Len(ss) = 1 THEN ss[1]
            ELSE ss[1] \o <<"\n">> \o Join(Tail(ss))

\* ShoppingList.__str__
ShoppingListStr == Join(entries)

\* The sequence number an entry's label carries: the digits before the first ":".
RECURSIVE LabelFrom(_, _)
LabelFrom(s, acc) == IF Len(s) = 0 \/ ~IsDigit(Head(s)) THEN acc
                     ELSE LabelFrom(Tail(s), 10 * acc + DigitVal(Head(s)))

Label(entry) == LabelFrom(entry, 0)

----------------------------------------------------------------------------
(* Python list operations used by ShoppingList *)

\* list.append(x)
ListAppend(lst, x) == Append(lst, x)

\* Whether `del lst[pos]` finds an element: Python accepts -len..len-1.
DelInRange(lst, pos) == -Len(lst) <= pos /\ pos < Len(lst)

\* The 1-based position `del lst[pos]` deletes (negative pos counts from the end).
DelIndex(lst, pos) == IF pos < 0 THEN Len(lst) + pos + 1 ELSE pos + 1

\* del lst[pos], for pos in range
ListDel(lst, pos) ==
    LET k == DelIndex(lst, pos)
    IN  SubSeq(lst, 1, k - 1) \o SubSeq(lst, k + 1, Len(lst))

Positions == -(MaxAdds + 1) .. (MaxAdds + 1)

----------------------------------------------------------------------------
(* srp.py: ShoppingList *)

SRPStart ==
    /\ entries = <<>>
    /\ count = 0
    /\ lastOp = [op |-> "init", pos |-> 0, ok |-> TRUE,
                 preEntries |-> <<>>, preCount |-> 0]
    /\ hist = <<>>
    /\ adds = 0
    /\ removes = 0
    /\ handle = "none"
    /\ saveResult = "none"
    /\ fileContent = <<>>
    /\ saves = 0

\* The k-th (1-based) entry of hist not yet removed.
RECURSIVE NthAlive(_, _, _)
NthAlive(h, k, i) ==
    IF h[i].removed THEN NthAlive(h, k, i + 1)
    ELSE IF k = 1 THEN i
    ELSE NthAlive(h, k - 1, i + 1)

\* add_entry inserting at the front of the list
add_entry_front(text) ==
    /\ adds < MaxAdds
    /\ entries' = <<FormatEntry(count, text)>> \o entries
    /\ count' = count + 1
    /\ hist' = Append(hist, [entry |-> FormatEntry(count, text), removed |-> FALSE])
    /\ adds' = adds + 1
    /\ lastOp' = [op |-> "add", pos |-> 0, ok |-> TRUE,
                  preEntries |-> entries, preCount |-> count]
    /\ UNCHANGED <<removes, handle, saveResult, fileContent, saves>>

add_entry(text) ==
    /\ adds < MaxAdds
    /\ entries' = ListAppend(entries, FormatEntry(count, text))
    /\ count' = count + 1
    /\ hist' = Append(hist, [entry |-> FormatEntry(count, text), removed |-> FALSE])
    /\ adds' = adds + 1
    /\ lastOp' = [op |-> "add", pos |-> 0, ok |-> TRUE,
                  preEntries |-> entries, preCount |-> count]
    /\ UNCHANGED <<removes, handle, saveResult, fileContent, saves>>

\* remove_entry decrementing count before the del statement
remove_entry_count_first(pos) ==
    /\ count' = count - 1
    /\ IF DelInRange(entries, pos)
       THEN /\ entries' = ListDel(entries, pos)
            /\ removes' = removes + 1
            /\ hist' = [hist EXCEPT
                          ![NthAlive(hist, IF pos < 0 THEN Len(entries) + pos + 1
                                                     ELSE pos + 1, 1)].removed = TRUE]
       ELSE UNCHANGED <<entries, removes, hist>>
    /\ lastOp' = [op |-> "remove", pos |-> pos, ok |-> DelInRange(entries, pos),
                  preEntries |-> entries, preCount |-> count]
    /\ UNCHANGED <<adds, handle, saveResult, fileContent, saves>>

remove_entry(pos) ==
    /\ IF DelInRange(entries, pos)
       THEN /\ entries' = ListDel(entries, pos)
            /\ count' = count - 1
            /\ removes' = removes + 1
            /\ hist' = [hist EXCEPT
                          ![NthAlive(hist, IF pos < 0 THEN Len(entries) + pos + 1
                                                     ELSE pos + 1, 1)].removed = TRUE]
       ELSE \* IndexError raised by the del statement: line 17 is not reached
            UNCHANGED <<entries, count, removes, hist>>
    /\ lastOp' = [op |-> "remove", pos |-> pos, ok |-> DelInRange(entries, pos),
                  preEntries |-> entries, preCount |-> count]
    /\ UNCHANGED <<adds, handle, saveResult, fileContent, saves>>

----------------------------------------------------------------------------
(* srp.py: PersistenceManager.save_to_file *)

\* What the environment does to one call: the open fails, str(journal) or
\* file.write raises, or nothing fails.
SaveOutcomes == {"ok", "open_fails", "write_fails"}

save_to_file(outcome) ==
    /\ saves < MaxSaves
    /\ saves' = saves + 1
    /\ IF outcome = "open_fails"
       THEN \* line 58 raises: no handle exists, the file is untouched
            /\ handle' = "none"
            /\ saveResult' = "raised_open"
            /\ UNCHANGED fileContent
       ELSE IF outcome = "write_fails"
       THEN \* line 59 raises: open(filename, "w") has truncated the file,
            \* line 60 is never reached
            /\ handle' = "open"
            /\ saveResult' = "raised_write"
            /\ fileContent' = <<>>
       ELSE /\ handle' = "closed"
            /\ saveResult' = "returned"
            /\ fileContent' = ShoppingListStr
    /\ lastOp' = [op |-> "save", pos |-> 0, ok |-> outcome = "ok",
                  preEntries |-> entries, preCount |-> count]
    /\ UNCHANGED <<entries, count, hist, adds, removes>>

SRPFrame == UNCHANGED <<ocpVars, ispVars, dipVars>>

NextSRP ==
    \/ \E text \in Texts : add_entry(text) /\ SRPFrame
    \/ \E pos \in Positions : remove_entry(pos) /\ SRPFrame
    \/ \E outcome \in SaveOutcomes : save_to_file(outcome) /\ SRPFrame

----------------------------------------------------------------------------
(* ocp.py: products and specifications *)

MaxItems == 2       \* length of the item list handed to filter
MaxAnd == 2         \* number of `&` applied while building a specification

Product(name, color, size) == [name |-> name, color |-> color, size |-> size]

\* The products of the demonstration (lines 173-175).
Products == { Product(<<"A", "p", "p", "l", "e">>, "GREEN", "SMALL"),
              Product(<<"T", "r", "e", "e">>, "GREEN", "LARGE"),
              Product(<<"H", "o", "u", "s", "e">>, "BLUE", "LARGE") }

UpperAlpha == <<"A", "B", "C", "D", "E", "F", "G", "H", "I", "J", "K", "L", "M",
                "N", "O", "P", "Q", "R", "S", "T", "U", "V", "W", "X", "Y", "Z">>
LowerAlpha == <<"a", "b", "c", "d", "e", "f", "g", "h", "i", "j", "k", "l", "m",
                "n", "o", "p", "q", "r", "s", "t", "u", "v", "w", "x", "y", "z">>

\* str.lower()
Lower(s) ==
    [i \in 1..Len(s) |->
        IF \E k \in 1..26 : UpperAlpha[k] = s[i]
        THEN LowerAlpha[CHOOSE k \in 1..26 : UpperAlpha[k] = s[i]]
        ELSE s[i]]

\* Specification objects: the class and the constructor arguments.
Specification == [kind |-> "base"]
ColorSpecification(color) == [kind |-> "color", color |-> color]
SizeSpecification(size) == [kind |-> "size", size |-> size]
NameSpecification(name) == [kind |-> "name", name |-> name]
AndSpecification(args) == [kind |-> "and", args |-> args]

\* Python values returned by is_satisfied: a bool, or None from the base class.
PyBool(b) == IF b THEN "True" ELSE "False"
Truthy(v) == v = "True"

RECURSIVE IsSatisfied(_, _), AllTruthy(_, _), AnyTruthy(_, _)

\* any(map(lambda spec: spec.is_satisfied(item), args))
AnyTruthy(args, item) ==
    IF Len(args) = 0 THEN FALSE
    ELSE IF Truthy(IsSatisfied(Head(args), item)) THEN TRUE
    ELSE AnyTruthy(Tail(args), item)

\* all(map(lambda spec: spec.is_satisfied(item), args))
AllTruthy(args, item) ==
    IF Len(args) = 0 THEN TRUE
    ELSE IF ~Truthy(IsSatisfied(Head(args), item)) THEN FALSE
    ELSE AllTruthy(Tail(args), item)

\* spec.is_satisfied(item), dispatched on the class of spec
IsSatisfied(sp, item) ==
    CASE sp.kind = "base"  -> "None"
      [] sp.kind = "color" -> PyBool(item.color = sp.color)
      [] sp.kind = "size"  -> PyBool(item.size = sp.size)
      [] sp.kind = "name"  -> PyBool(Lower(item.name) = Lower(sp.name))
      [] sp.kind = "and"   -> PyBool(AllTruthy(sp.args, item))

\* Specification.__and__
AndOp(self, other) == AndSpecification(<<self, other>>)

\* Number of `&` that built sp (each `&` nests the earlier result as args[1]).
RECURSIVE AndDepth(_)
AndDepth(sp) == IF sp.kind = "and" /\ Len(sp.args) = 2 THEN 1 + AndDepth(sp.args[1]) ELSE 0

StartSpecs == { Specification,
                ColorSpecification("GREEN"),
                SizeSpecification("LARGE"),
                NameSpecification(<<"h", "o", "u", "s", "e">>),
                AndSpecification(<<>>),
                AndSpecification(<<SizeSpecification("LARGE"),
                                   ColorSpecification("BLUE"),
                                   NameSpecification(<<"H", "O", "U", "S", "E">>)>>) }

RightOperands == { Specification,
                   ColorSpecification("BLUE"),
                   SizeSpecification("LARGE"),
                   NameSpecification(<<"t", "R", "e", "E">>),
                   AndSpecification(<<>>) }

ItemLists == UNION { [1..n -> Products] : n \in 0..MaxItems }

OCPStart ==
    /\ spec \in StartSpecs
    /\ operands = <<>>
    /\ items = <<>>
    /\ idx = 0
    /\ out = <<>>
    /\ pc = "build"

\* spec = spec & other
and_(other) ==
    /\ pc = "build"
    /\ AndDepth(spec) < MaxAnd
    /\ spec' = AndOp(spec, other)
    /\ operands' = <<spec, other>>
    /\ UNCHANGED <<items, idx, out, pc>>

\* bf.filter(its, spec): creates the generator; no line of the body has run yet
filter(its) ==
    /\ pc = "build"
    /\ items' = its
    /\ idx' = 0
    /\ out' = <<>>
    /\ pc' = "iter"
    /\ UNCHANGED <<spec, operands>>

\* The positions after idx whose item the generator would yield.
Hits == { k \in (idx + 1)..Len(items) : Truthy(IsSatisfied(spec, items[k])) }

Min(S) == CHOOSE k \in S : \A j \in S : k <= j

\* One resumption of a generator whose test is always truthy: yields the next item.
next_unfiltered ==
    /\ pc = "iter"
    /\ IF idx < Len(items)
       THEN /\ idx' = idx + 1
            /\ out' = Append(out, items[idx + 1])
            /\ pc' = "iter"
       ELSE /\ UNCHANGED <<idx, out>>
            /\ pc' = "done"
    /\ UNCHANGED <<spec, operands, items>>

\* One resumption of the generator (next(gen)): the for loop runs on to the next
\* satisfying item and yields it, or runs off the end of items (StopIteration).
next_ ==
    /\ pc = "iter"
    /\ IF Hits # {}
       THEN /\ idx' = Min(Hits)
            /\ out' = Append(out, items[Min(Hits)])
            /\ pc' = "iter"
       ELSE /\ idx' = Len(items)
            /\ UNCHANGED out
            /\ pc' = "done"
    /\ UNCHANGED <<spec, operands, items>>

OCPFrame == UNCHANGED <<srpVars, ispVars, dipVars>>

NextOCP ==
    \/ \E other \in RightOperands : and_(other) /\ OCPFrame
    \/ \E its \in ItemLists : filter(its) /\ OCPFrame
    \/ next_ /\ OCPFrame

----------------------------------------------------------------------------
(* isp.py: MultiFunctionMachine *)

MaxCalls == 3       \* calls made on the machine in one run

Devices == {"d1", "d2", "d3"}
Documents == {"doc1", "doc2"}

RECURSIVE SumLen(_, _)
SumLen(f, S) == IF S = {} THEN 0
                ELSE LET d == CHOOSE d \in S : TRUE
                     IN  Len(f[d]) + SumLen(f, S \ {d})

\* dev.print(document) / dev.scan(document): the device records the invocation
DevicePrint(lg, dev, document) ==
    [lg EXCEPT ![dev] = Append(@, [op |-> "print", doc |-> document])]

DeviceScan(lg, dev, document) ==
    [lg EXCEPT ![dev] = Append(@, [op |-> "scan", doc |-> document])]

\* MultiFunctionMachine(printer, scanner)
ISPStart ==
    /\ printer \in Devices
    /\ scanner \in Devices
    /\ log = [d \in Devices |-> <<>>]
    /\ lastCall = [op |-> "init", doc |-> "", preLog |-> [d \in Devices |-> <<>>]]

MFM_print(document) ==
    /\ SumLen(log, Devices) < MaxCalls
    /\ log' = DevicePrint(log, printer, document)
    /\ lastCall' = [op |-> "print", doc |-> document, preLog |-> log]
    /\ UNCHANGED <<printer, scanner>>

\* scan forwarding to the printer delegate's print
MFM_scan_to_printer(document) ==
    /\ SumLen(log, Devices) < MaxCalls
    /\ log' = DevicePrint(log, printer, document)
    /\ lastCall' = [op |-> "scan", doc |-> document, preLog |-> log]
    /\ UNCHANGED <<printer, scanner>>

MFM_scan(document) ==
    /\ SumLen(log, Devices) < MaxCalls
    /\ log' = DeviceScan(log, scanner, document)
    /\ lastCall' = [op |-> "scan", doc |-> document, preLog |-> log]
    /\ UNCHANGED <<printer, scanner>>

ISPFrame == UNCHANGED <<srpVars, ocpVars, dipVars>>

NextISP ==
    \/ \E document \in Documents : MFM_print(document) /\ ISPFrame
    \/ \E document \in Documents : MFM_scan(document) /\ ISPFrame

----------------------------------------------------------------------------
(* dip.py: Relationships *)

MaxLinks == 2       \* add_parent_and_child calls in one run
MaxInstances == 2   \* Relationships() objects created in one run

PARENT == 0
CHILD == 1
SIBLING == 2

Person(id, name) == [id |-> id, name |-> name]

Persons == { Person(1, "John"), Person(2, "Chris"), Person(3, "Matt") }

\* Names asked about: the persons' names and one that belongs to nobody.
Names == { p.name : p \in Persons } \cup { "Ann" }

DIPStart ==
    /\ relations = <<>>      \* line 34: one list, created with the class
    /\ instances = {}
    /\ calls = <<>>

\* self.relations: no instance ever gets an attribute of its own, so the name
\* resolves to the class attribute for every instance.
SelfRelations(self) == relations

\* Relationships()
new_Relationships ==
    /\ Cardinality(instances) < MaxInstances
    /\ instances' = instances \cup { Cardinality(instances) + 1 }
    /\ UNCHANGED <<relations, calls>>

\* add_parent_and_child storing only the parent-to-child edge
add_parent_and_child_one_edge(self, parent, child) ==
    /\ self \in instances
    /\ Len(calls) < MaxLinks
    /\ relations' = Append(SelfRelations(self), <<parent, PARENT, child>>)
    /\ calls' = Append(calls, [inst |-> self, parent |-> parent, child |-> child])
    /\ UNCHANGED instances

add_parent_and_child(self, parent, child) ==
    /\ self \in instances
    /\ Len(calls) < MaxLinks
    /\ relations' = Append(Append(SelfRelations(self), <<parent, PARENT, child>>),
                           <<child, PARENT, parent>>)
    /\ calls' = Append(calls, [inst |-> self, parent |-> parent, child |-> child])
    /\ UNCHANGED instances

\* The names the generator yields when consumed to the end.
RECURSIVE Scan(_, _)
Scan(rs, name) ==
    IF Len(rs) = 0 THEN <<>>
    ELSE LET r == Head(rs)
         IN  IF r[1].name = name /\ r[2] = PARENT
             THEN <<r[3].name>> \o Scan(Tail(rs), name)
             ELSE Scan(Tail(rs), name)

find_all_children_of(self, name) == Scan(SelfRelations(self), name)

DIPFrame == UNCHANGED <<srpVars, ocpVars, ispVars>>

NextDIP ==
    \/ new_Relationships /\ DIPFrame
    \/ \E self \in instances, parent \in Persons, child \in Persons :
           add_parent_and_child(self, parent, child) /\ DIPFrame

----------------------------------------------------------------------------
(* Specifications *)

InitSRP == SRPStart /\ OCPStart /\ spec = Specification
                    /\ ISPStart /\ printer = "d1" /\ scanner = "d2" /\ DIPStart
InitOCP == OCPStart /\ SRPStart
                    /\ ISPStart /\ printer = "d1" /\ scanner = "d2" /\ DIPStart
InitISP == ISPStart /\ SRPStart /\ OCPStart /\ spec = Specification /\ DIPStart
InitDIP == DIPStart /\ SRPStart /\ OCPStart /\ spec = Specification
                    /\ ISPStart /\ printer = "d1" /\ scanner = "d2"

SpecSRP == InitSRP /\ [][NextSRP]_vars
SpecOCP == InitOCP /\ [][NextOCP]_vars
SpecISP == InitISP /\ [][NextISP]_vars
SpecDIP == InitDIP /\ [][NextDIP]_vars

----------------------------------------------------------------------------
(* Claims about srp.py, checked under SpecSRP *)

\* The entries added and not removed, in the order they were added.
Remaining ==
    LET alive == SelectSeq(hist, LAMBDA e : ~e.removed)
    IN  [i \in 1..Len(alive) |-> alive[i].entry]

\* C1: after any sequence of add_entry and remove_entry calls, count equals the
\* successful additions minus the successful removals and the number of entries
\* held, and str(list) is the remaining entries, newline-joined, in the order
\* they were added.
C1_CountAndOrder ==
    /\ count = adds - removes
    /\ count = Len(entries)
    /\ ShoppingListStr = Join(Remaining)

\* C1 witness: a removal has succeeded, a later one failed, two entries remain.
C1_Witness ==
    /\ lastOp.op = "remove" /\ ~lastOp.ok
    /\ removes >= 1
    /\ Len(entries) >= 2

\* C6 as stated: remove_entry(pos) fails for every pos that is not one of
\* 0..n-1, and a failed call leaves entries and count unchanged.
C6_FailsOutsideZeroBased ==
    lastOp.op = "remove" =>
        /\ lastOp.pos \notin 0..(Len(lastOp.preEntries) - 1) => ~lastOp.ok
        /\ ~lastOp.ok => entries = lastOp.preEntries /\ count = lastOp.preCount

\* C6 amended: remove_entry(pos) on a list of n entries fails for every pos
\* outside -n..n-1 and then leaves entries and count unchanged; a pos in -n..-1
\* counts from the end and removes the entry at zero-based position n+pos.
C6_FailsOutsidePythonRange ==
    lastOp.op = "remove" =>
        LET pre == lastOp.preEntries
            n == Len(pre)
        IN  /\ lastOp.pos \notin (-n)..(n - 1) => ~lastOp.ok
            /\ ~lastOp.ok => entries = pre /\ count = lastOp.preCount
            /\ lastOp.pos \in (-n)..(-1) =>
                   /\ lastOp.ok
                   /\ Len(entries) = n - 1
                   /\ \A i \in 1..(n - 1) :
                          entries[i] = IF i < n + lastOp.pos + 1 THEN pre[i] ELSE pre[i + 1]

\* C6 witness: a removal below -n has failed on a list that holds entries.
C6_Witness ==
    /\ lastOp.op = "remove" /\ ~lastOp.ok
    /\ Len(lastOp.preEntries) >= 1
    /\ lastOp.pos < -Len(lastOp.preEntries)

\* C5 as stated: whenever the open succeeded, the handle is closed when
\* save_to_file returns and when rendering or writing fails.
C5_HandleClosedOnEveryExit ==
    saveResult \in {"returned", "raised_write"} => handle = "closed"

\* C10 as stated: the sequence numbers in the entries' labels are pairwise
\* distinct and strictly increasing in list order.
C10_LabelsStrictlyIncreasing ==
    \A i, j \in 1..Len(entries) : i < j => Label(entries[i]) < Label(entries[j])

----------------------------------------------------------------------------
(* Claims about ocp.py, checked under SpecOCP *)

Satisfies(x) == Truthy(IsSatisfied(spec, x))

\* C2: the generator yields exactly the items that satisfy spec, once per
\* occurrence and in the order of items: what it has yielded after consuming
\* idx items is the satisfying part of those idx items, and it ends only after
\* consuming them all.
C2_FilterExact ==
    /\ out = SelectSeq(SubSeq(items, 1, idx), Satisfies)
    /\ pc = "done" => idx = Len(items) /\ out = SelectSeq(items, Satisfies)

\* C2 witness: a consumed generator that kept some items and dropped others.
C2_Witness ==
    /\ pc = "done"
    /\ Len(out) >= 1
    /\ Len(out) < Len(items)

\* C3: an AndSpecification with no children is satisfied by every item, and the
\* conjunction built by A & B is satisfied by X iff A and B both are.
C3_Conjunction ==
    \A x \in Products :
        /\ \A sp \in {spec} \cup {operands[i] : i \in 1..Len(operands)} :
               sp = AndSpecification(<<>>) => IsSatisfied(sp, x) = "True"
        /\ operands # <<>> =>
               (IsSatisfied(spec, x) = "True"
                   <=> /\ Truthy(IsSatisfied(operands[1], x))
                       /\ Truthy(IsSatisfied(operands[2], x)))
               /\ IsSatisfied(spec, x) \in {"True", "False"}

\* C3 witness: a conjunction A & B that one item satisfies and that another
\* item fails although it satisfies A.
C3_Witness ==
    /\ operands # <<>>
    /\ \E x \in Products : Truthy(IsSatisfied(spec, x))
    /\ \E y \in Products : /\ ~Truthy(IsSatisfied(spec, y))
                           /\ Truthy(IsSatisfied(operands[1], y))

----------------------------------------------------------------------------
(* Claims about isp.py, checked under SpecISP *)

\* C7: print(document) invokes exactly one operation, the printer delegate's
\* print with that document, and scan(document) exactly one, the scanner
\* delegate's scan with that document; no other device is touched.
C7_Forwarding ==
    /\ lastCall.op = "print" =>
           log = [lastCall.preLog EXCEPT
                     ![printer] = Append(@, [op |-> "print", doc |-> lastCall.doc])]
    /\ lastCall.op = "scan" =>
           log = [lastCall.preLog EXCEPT
                     ![scanner] = Append(@, [op |-> "scan", doc |-> lastCall.doc])]

\* C7 witness: a scan forwarded by a machine whose two delegates differ, after a
\* print was forwarded.
C7_Witness ==
    /\ lastCall.op = "scan"
    /\ printer # scanner
    /\ Len(log[printer]) >= 1

----------------------------------------------------------------------------
(* Claims about dip.py, checked under SpecDIP *)

Range(f) == { f[i] : i \in DOMAIN f }

\* The names that appear in some link seen by the instance.
LinkedNames(self) ==
    { r[1].name : r \in Range(SelfRelations(self)) }
        \cup { r[3].name : r \in Range(SelfRelations(self)) }

\* C4: after add_parent_and_child(P, C) both directions of the link are stored,
\* find_all_children_of(P.name) yields C.name, and find_all_children_of(n) is
\* empty for every name n that appears in no link of the store.
C4_LinkAndQuery ==
    \A self \in instances :
        /\ \A k \in 1..Len(calls) :
               calls[k].inst = self =>
                   LET P == calls[k].parent
                       C == calls[k].child
                       rs == SelfRelations(self)
                   IN  /\ \E j \in 1..(Len(rs) - 1) :
                              /\ rs[j][1] = P /\ rs[j][3] = C
                              /\ rs[j + 1][1] = C /\ rs[j + 1][3] = P
                       /\ C.name \in Range(find_all_children_of(self, P.name))
        /\ \A n \in Names :
               n \notin LinkedNames(self) => find_all_children_of(self, n) = <<>>

\* C4 witness: a store with a link, and a person's name that is in no link.
C4_Witness ==
    /\ Len(calls) >= 1
    /\ \E p \in Persons : \A self \in instances : p.name \notin LinkedNames(self)

\* The names of the persons passed as child in a call whose parent is named n,
\* in call order.
RECURSIVE ChildrenByCalls(_, _)
ChildrenByCalls(cs, n) ==
    IF Len(cs) = 0 THEN <<>>
    ELSE IF Head(cs).parent.name = n
         THEN <<Head(cs).child.name>> \o ChildrenByCalls(Tail(cs), n)
         ELSE ChildrenByCalls(Tail(cs), n)

\* C8 as stated: find_all_children_of(n) yields only the names of persons
\* passed as child in a call whose parent is named n, in call order (looked at
\* while a single store exists, so that every call was made on it).
C8_OnlyChildrenYielded ==
    Cardinality(instances) = 1 =>
        \A self \in instances, n \in Names :
            find_all_children_of(self, n) = ChildrenByCalls(calls, n)

\* The edges add_parent_and_child has appended through one instance.
RECURSIVE EdgesOf(_, _)
EdgesOf(cs, self) ==
    IF Len(cs) = 0 THEN <<>>
    ELSE IF Head(cs).inst = self
         THEN << <<Head(cs).parent, PARENT, Head(cs).child>>,
                 <<Head(cs).child, PARENT, Head(cs).parent>> >> \o EdgesOf(Tail(cs), self)
         ELSE EdgesOf(Tail(cs), self)

\* C9 as stated: each store holds its own edges, those added through it, so a
\* store nothing was added to yields no children whatever other stores hold.
C9_StoresAreSeparate ==
    \A self \in instances :
        /\ SelfRelations(self) = EdgesOf(calls, self)
        /\ EdgesOf(calls, self) = <<>> =>
               \A n \in Names : find_all_children_of(self, n) = <<>>

====
